---- MODULE Spec2Model ----
(***************************************************************************)
(* Model of the fetch/update scheduling of slideshow.py: the persisted     *)
(* State record, the once-a-day check (check_time_and_run), the            *)
(* availability probe, the good-night search, the fetch of the station     *)
(* directories and the promotion of the staging directory.                 *)
(*                                                                         *)
(* Strings are modelled as tuples: '' is <<>>, an ISO timestamp is <<t>>   *)
(* (t in minutes since 00:00 of day 0), a capture directory name           *)
(* 'BE0012_20250802_...' is <<station, date>>.  A dict is a function whose *)
(* DOMAIN is its key set.                                                  *)
(***************************************************************************)
EXTENDS Integers, Sequences, FiniteSets, TLC

VARIABLES
    now,    \* the wall clock, minutes since 00:00 of day 0
    state,  \* the in-memory State object of the process
    file,   \* latest_state.json: <<>> when absent, else <<its JSON object>>
    fs,     \* the three directory slots 'latest', 'current', 'current_old'
    pc,     \* where the process is
    loc,    \* the local variables of the running check_time_and_run
    hist,   \* what the running (or last returned) invocation did so far
    past,   \* what earlier invocations of this process did
    boots   \* how many times the process was started

vars == <<now, state, file, fs, pc, loc, hist, past, boots>>

----------------------------------------------------------------------------
\* Bounds of the model

MaxDay == 2          \* the clock runs over days 1 .. MaxDay
MaxBoots == 1        \* the process is started at most MaxBoots times

Min(S) == CHOOSE x \in S : \A y \in S : x <= y

\* the times of day at which the clock is sampled
ClockTimes == {8 * 60, 9 * 60, 9 * 60 + 30, 10 * 60}

\* capture-file counts a station directory can have
Counts == {0, 3, 5, 10}

\* the stations that exist on the remote, in the order 'ls' lists them
StationOrder == <<"BE000D", "BE0012">>
RemoteStations == {StationOrder[i] : i \in DOMAIN StationOrder}
\* the first of a set of stations in that order
FirstStation(S) ==
    StationOrder[Min({i \in DOMAIN StationOrder : StationOrder[i] \in S})]

----------------------------------------------------------------------------
\* Program constants

MIN_FITS_THRESHOLD == 5
max_days_back == 30
max_retries == 3
CheckHour == 9
ServerCheckSeconds == 3600

MinutesPerDay == 24 * 60
Times == {d * MinutesPerDay + m : d \in 1..MaxDay, m \in ClockTimes}

EmptyStr == <<>>
EmptyDict == <<>>

isoformat(t) == <<t>>
fromisoformat(s) == s[1]
\* a non-empty string that is no ISO timestamp is <<t>> with t < 0:
\* datetime.fromisoformat raises ValueError on it
Unparsable == <<-1>>
parses(s) == s[1] >= 0
DateOf(t) == t \div MinutesPerDay
HourOf(t) == (t % MinutesPerDay) \div 60

Max2(a, b) == IF a >= b THEN a ELSE b

RECURSIVE SumOver(_, _)
SumOver(f, S) ==
    IF S = {} THEN 0
    ELSE LET x == CHOOSE y \in S : TRUE IN f[x] + SumOver(f, S \ {x})

\* dict[key] = value
DictSet(d, k, v) == [x \in (DOMAIN d) \cup {k} |-> IF x = k THEN v ELSE d[x]]
\* dict.get(key, default)
DictGet(d, k, default) == IF k \in DOMAIN d THEN d[k] ELSE default
\* {k: d[k] for k in keys}
Restrict(d, keys) == [x \in keys |-> d[x]]

----------------------------------------------------------------------------
\* class State

State0 ==
    [last_dirs |-> EmptyDict, last_switch |-> EmptyStr, last_check |-> EmptyStr,
     last_server_check |-> EmptyStr, image_dir |-> "current",
     active_stations |-> {}]

StateFields == DOMAIN State0

\* State.save: json.dump(asdict(self))
State_save(st) == <<st>>

\* a load that does not migrate the legacy field
State_load_without_migration(data) ==
    LET d2 == Restrict(data, (DOMAIN data) \ {"last_good_night_check"})
    IN  IF (DOMAIN d2) \subseteq StateFields
        THEN [ok |-> TRUE,
              state |-> [k \in StateFields |-> IF k \in DOMAIN d2 THEN d2[k] ELSE State0[k]]]
        ELSE [ok |-> FALSE, state |-> State0]

\* State.load: [ok |-> FALSE] when cls(**data) raises on an unknown field
State_load(data) ==
    LET d1 == IF "last_dir" \in DOMAIN data /\ "last_dirs" \notin DOMAIN data
              THEN [k \in ((DOMAIN data) \ {"last_dir"}) \cup {"last_dirs"} |->
                       IF k = "last_dirs" THEN [s \in {"default"} |-> data["last_dir"]]
                       ELSE data[k]]
              ELSE data
        d2 == Restrict(d1, (DOMAIN d1) \ {"last_good_night_check"})
    IN  IF (DOMAIN d2) \subseteq StateFields
        THEN [ok |-> TRUE,
              state |-> [k \in StateFields |-> IF k \in DOMAIN d2 THEN d2[k] ELSE State0[k]]]
        ELSE [ok |-> FALSE, state |-> State0]

----------------------------------------------------------------------------
\* The directory slots.  A slot is absent, or holds one subdirectory per
\* station: <<>> an empty one, <<s, d>> the complete copy of directory
\* <<s, d>>, <<s, d, "partial">> what an interrupted transfer left.

Absent == [exists |-> FALSE, sub |-> EmptyDict]
EmptyTree == [exists |-> TRUE, sub |-> EmptyDict]
Fs0 == [latest |-> Absent, current |-> Absent, current_old |-> Absent]

----------------------------------------------------------------------------
\* Locals and observations of one invocation

\* dates, passes: the dates find_last_good_night queried so far and, for
\* each, whether its snapshot was non-empty and passed is_good_night;
\* known: the stations discovery returned for the date the search accepted;
\* todo, succeeded: the stations the fetch has still to try, and those
\* whose transfer succeeded
Loc0 ==
    [server_available |-> FALSE, station_dirs |-> EmptyDict, start_date |-> 0,
     days_back |-> 0, has_new_images |-> FALSE, is_good |-> FALSE,
     total_fits |-> 0, todo |-> {}, dates |-> <<>>, passes |-> <<>>,
     known |-> {}, succeeded |-> {}]

\* started: an invocation began; pre, preFile: the State object and the state
\* file at its entry; gate: it passed the entry gate; probe: "none", "up" or
\* "down"; calls: the remote operations it made; decided: it reached the
\* decision, with new_images and is_good as computed there; writes: saves
\* of the state file; promotions: completed renames of 'latest' to
\* 'current'; raised: it ended in the except clause; done, ret: it
\* returned ret; preFs: the directory slots when its fetch began; fallback:
\* "none", or whether get_latest_dirs_all_stations returned an "empty" or
\* a "nonempty" snapshot; prevProbe: <<>> or <<result, time>> of the last
\* probe this process made before the invocation; staged: the staging
\* directory when switch_latest_dir began; propagated: an exception left
\* check_time_and_run; hadImages: Application.images was a cycle when
\* display_next_slide began; converted, rebuilt: get_correct_images ran
\* convert_all_fits, create_image_cycle; slide: "none", "scheduled" when
\* display_next_slide scheduled its next invocation, "stopped" when it
\* ended without
Hist0 ==
    [started |-> FALSE, pre |-> State0, preFile |-> <<>>, gate |-> FALSE,
     probe |-> "none", calls |-> {}, decided |-> FALSE, new_images |-> FALSE,
     is_good |-> FALSE, writes |-> 0, promotions |-> 0, raised |-> FALSE,
     done |-> FALSE, ret |-> FALSE, preFs |-> Fs0, fallback |-> "none",
     prevProbe |-> <<>>, staged |-> Absent, propagated |-> FALSE,
     hadImages |-> FALSE, converted |-> FALSE, rebuilt |-> FALSE,
     slide |-> "none"]

\* last_probe: <<>> or <<result, time>> of the most recent probe;
\* skip_day: <<>> or <<day>> of the most recent check that decided not to
\* fetch; images: Application.images, "none" for None, else a cycle that
\* is "empty" or "full"; pending: the invocations of display_next_slide
\* that are due, the call start() makes or a callback window.after scheduled
Past0 == [last_probe |-> <<>>, skip_day |-> <<>>, images |-> "none", pending |-> 0]

----------------------------------------------------------------------------
\* What the remote side can answer

\* the outcome of one attempt of the probe: the success token, any other
\* output, a timeout, or a non-zero exit / other exception
AttemptOutcomes == {"server_available", "other_output", "timeout", "failed"}

\* the station listing: it fails, or lists some stations (possibly none)
DiscoveryOutcomes ==
    {[ok |-> FALSE, stations |-> {}]} \cup
    {[ok |-> TRUE, stations |-> S] : S \in SUBSET RemoteStations}

\* nights of which the remote can hold a directory at time t: the stations
\* started capturing in night 0, and a directory carries the date of the
\* evening its night began, so in the morning hours of ClockTimes the newest
\* one is yesterday's
HasNight(d, t) == d >= 0 /\ d < DateOf(t)
Nights(t) == {d \in 0..DateOf(t) : HasNight(d, t)}

\* the per-station query: a directory of some night with its capture count,
\* no directory, or a failure (timeout, non-zero exit, any other exception)
NoDirAnswers == {[kind |-> k, date |-> 0, fits_count |-> 0] : k \in {"nodir", "failed"}}
DirAnswers(dates) ==
    {[kind |-> "dir", date |-> d, fits_count |-> c] : d \in dates, c \in Counts}
DateAnswers(d, t) ==
    [RemoteStations -> NoDirAnswers \cup (IF HasNight(d, t) THEN DirAnswers({d}) ELSE {})]
LatestAnswers(t) == [RemoteStations -> NoDirAnswers \cup DirAnswers(Nights(t))]

----------------------------------------------------------------------------
\* Pure functions of the program

\* an attempt loop that sleeps after every failed attempt
RECURSIVE server_attempt_sleeping_after_each(_, _, _, _)
server_attempt_sleeping_after_each(attempt, retries, outs, delays) ==
    IF attempt >= retries
    THEN [result |-> FALSE, attempts |-> attempt, delays |-> delays]
    ELSE IF outs[attempt + 1] = "server_available"
    THEN [result |-> TRUE, attempts |-> attempt + 1, delays |-> delays]
    ELSE server_attempt_sleeping_after_each(attempt + 1, retries, outs,
                                            Append(delays, 2 ^ attempt))

\* is_server_available: the attempt loop, with the delays it sleeps
RECURSIVE server_attempt(_, _, _, _)
server_attempt(attempt, retries, outs, delays) ==
    IF attempt >= retries
    THEN [result |-> FALSE, attempts |-> attempt, delays |-> delays]
    ELSE IF outs[attempt + 1] = "server_available"
    THEN [result |-> TRUE, attempts |-> attempt + 1, delays |-> delays]
    ELSE server_attempt(attempt + 1, retries, outs,
                        IF attempt < retries - 1
                        THEN Append(delays, 2 ^ attempt) ELSE delays)

\* a probe that takes any output of the remote command as success
is_server_available_on_any_output(retries, outs) ==
    server_attempt(0, retries,
                   [i \in DOMAIN outs |-> IF outs[i] = "other_output"
                                          THEN "server_available" ELSE outs[i]],
                   <<>>)

is_server_available(retries, outs) == server_attempt(0, retries, outs, <<>>)

is_time_for_updating(last_check, t) ==
    IF last_check = EmptyStr THEN TRUE
    ELSE DateOf(fromisoformat(last_check)) # DateOf(t)

\* a probe at every check
is_time_for_server_check_always(last_server_check, t) == TRUE

is_time_for_server_check(last_server_check, t) ==
    IF last_server_check = EmptyStr THEN TRUE
    ELSE (t - fromisoformat(last_server_check)) * 60 >= ServerCheckSeconds

\* a gate that tests the hour alone
check_is_due_by_hour_alone(st, t) == ~(HourOf(t) < CheckHour)

\* the entry gate of check_time_and_run
check_is_due(st, t) ==
    ~(HourOf(t) < CheckHour) /\ is_time_for_updating(st.last_check, t)

\* the fallback of get_all_stations
cached_stations(st) ==
    IF st.active_stations # {} THEN st.active_stations ELSE {"BE000D"}

get_all_stations(st, server_available, disc) ==
    IF ~server_available THEN cached_stations(st)
    ELSE IF disc.ok THEN disc.stations
    ELSE cached_stations(st)

fits_counts_of(station_dirs) ==
    [s \in DOMAIN station_dirs |-> station_dirs[s].fits_count]

\* a test of the total against the threshold, without the division
is_good_night_by_total(station_fits_counts) ==
    /\ DOMAIN station_fits_counts # {}
    /\ SumOver(station_fits_counts, DOMAIN station_fits_counts) >= MIN_FITS_THRESHOLD

is_good_night(station_fits_counts) ==
    IF DOMAIN station_fits_counts = {} THEN FALSE
    ELSE LET total_fits == SumOver(station_fits_counts, DOMAIN station_fits_counts)
             num_stations == Cardinality(DOMAIN station_fits_counts)
         IN  total_fits >= MIN_FITS_THRESHOLD * num_stations

\* a query loop that a failed query aborts: the snapshot is lost
station_dirs_all_or_nothing(stations, answers) ==
    LET asked == stations \cap DOMAIN answers
        found == IF \E s \in asked : answers[s].kind = "failed" THEN {}
                 ELSE {s \in asked : answers[s].kind = "dir"}
    IN  [s \in found |-> [directory |-> <<s, answers[s].date>>,
                          fits_count |-> answers[s].fits_count]]

\* get_station_dirs_for_date, given the stations to query and what each
\* query answers
station_dirs_for_date(stations, answers) ==
    LET found == {s \in stations \cap DOMAIN answers :
                     answers[s].kind = "dir" /\ answers[s].fits_count >= 0}
    IN  [s \in found |-> [directory |-> <<s, answers[s].date>>,
                          fits_count |-> answers[s].fits_count]]

get_station_dirs_for_date(st, disc, answers) ==
    station_dirs_for_date(get_all_stations(st, TRUE, disc), answers)

\* a listing that keeps the directories without capture files
get_latest_dirs_with_empty_dirs(st, server_available, disc, answers) ==
    LET stations == get_all_stations(st, server_available, disc)
        found == {s \in stations \cap DOMAIN answers : answers[s].kind = "dir"}
    IN  IF ~server_available THEN EmptyDict
        ELSE [s \in found |-> [directory |-> <<s, answers[s].date>>,
                               fits_count |-> answers[s].fits_count]]

get_latest_dirs_all_stations(st, server_available, disc, answers) ==
    LET stations == get_all_stations(st, server_available, disc)
        found == {s \in stations \cap DOMAIN answers :
                     answers[s].kind = "dir" /\ answers[s].fits_count > 0}
    IN  IF ~server_available THEN EmptyDict
        ELSE [s \in found |-> [directory |-> <<s, answers[s].date>>,
                               fits_count |-> answers[s].fits_count]]

\* a search that starts the day after the reference
search_start_date_from_day_after(last_checked_date, t) ==
    IF last_checked_date # EmptyStr /\ parses(last_checked_date)
    THEN Max2(DateOf(fromisoformat(last_checked_date)) + 1, DateOf(t) - 1)
    ELSE DateOf(t) - 1

\* find_last_good_night: the snapshot of a date is returned
night_passes(station_dirs) ==
    /\ DOMAIN station_dirs # {}
    /\ is_good_night(fits_counts_of(station_dirs))

\* the first date find_last_good_night inspects
search_start_date(last_checked_date, t) ==
    IF last_checked_date # EmptyStr /\ parses(last_checked_date)
    THEN Max2(DateOf(fromisoformat(last_checked_date)), DateOf(t) - 1)
    ELSE DateOf(t) - 1

\* the novelty test of check_time_and_run
has_new_images(station_dirs, last_dirs) ==
    \E s \in DOMAIN station_dirs :
        station_dirs[s].directory # DictGet(last_dirs, s, EmptyStr)

\* a decision that lacks the first-run override
should_fetch_without_override(new_images, is_good, active_stations) ==
    new_images /\ is_good

should_fetch(new_images, is_good, active_stations) ==
    (new_images /\ is_good) \/ active_stations = {}

\* the value check_time_and_run returns after its decision
check_result(new_images, is_good) == new_images /\ is_good

----------------------------------------------------------------------------
\* The process

Init ==
    /\ now \in Times
    /\ state = State0
    /\ file = <<>>
    /\ fs = Fs0
    /\ pc = "off"
    /\ loc = Loc0
    /\ hist = Hist0
    /\ past = Past0
    /\ boots = 0

\* the clock advances between two timer ticks, or while the process is down
Tick ==
    /\ pc \in {"idle", "off"}
    /\ \E t \in Times : t > now /\ now' = t
    /\ hist' = Hist0
    /\ UNCHANGED <<state, file, fs, pc, loc, past, boots>>

\* __main__, slideshow mode: load the state file, create the image directory
Start ==
    /\ pc = "off"
    /\ boots < MaxBoots
    /\ boots' = boots + 1
    /\ LET loaded == IF file = <<>> THEN [ok |-> TRUE, state |-> State0]
                     ELSE State_load(file[1])
       IN  /\ loaded.ok
           /\ state' = loaded.state
    /\ fs' = IF fs.current.exists THEN fs ELSE [fs EXCEPT !.current = EmptyTree]
    /\ pc' = "idle"
    /\ loc' = Loc0
    /\ hist' = Hist0
    /\ past' = [Past0 EXCEPT !.pending = 1]
    /\ UNCHANGED <<now, file>>

\* the process is killed (power loss, kill): memory is lost, disk stays
Crash ==
    /\ pc # "off"
    /\ pc' = "off"
    /\ state' = State0
    /\ loc' = Loc0
    /\ hist' = Hist0
    /\ past' = Past0
    /\ UNCHANGED <<now, file, fs, boots>>

\* a return of check_time_and_run
Return(h, value) == [h EXCEPT !.done = TRUE, !.ret = value]

\* an exception that no except clause turns into a return value
Except_unhandled(h) == [h EXCEPT !.raised = TRUE, !.propagated = TRUE]

\* an exception inside the try block of check_time_and_run: logged, False
\* is returned, nothing is saved
Except(h) == Return([h EXCEPT !.raised = TRUE], FALSE)

\* a callback that schedules its successor before it does anything else
begin_slide_rescheduling(pending) == pending

\* display_next_slide begins: the due invocation is consumed, and nothing is
\* scheduled before the end
begin_slide(pending) == pending - 1

\* window.after at the end of display_next_slide
schedule_next(pending) == pending + 1

\* display_next_slide begins and calls check_time_and_run; its entry: the
\* hour and once-a-day gate
CheckEnter ==
    /\ pc = "idle"
    /\ past.pending > 0
    /\ past' = [past EXCEPT !.pending = begin_slide(@)]
    /\ LET h == [Hist0 EXCEPT !.started = TRUE, !.pre = state, !.preFile = file,
                              !.prevProbe = past.last_probe]
       IN  IF check_is_due(state, now)
           THEN /\ pc' = "probe"
                /\ hist' = [h EXCEPT !.gate = TRUE]
           ELSE /\ pc' = "images"
                /\ hist' = Return(h, FALSE)
    /\ loc' = Loc0
    /\ UNCHANGED <<now, state, file, fs, boots>>

\* a probe that also marks the check as done
probed_state_marking_check(st, t) ==
    [st EXCEPT !.last_server_check = isoformat(t), !.last_check = isoformat(t)]

\* check_time_and_run: the State after a probe at time t
probed_state(st, t) == [st EXCEPT !.last_server_check = isoformat(t)]

\* a check that goes on whatever the probe said
after_probe_ignored(server_available) == "find"

\* check_time_and_run: where it goes with the probe's result
after_probe(server_available) == IF server_available THEN "find" ELSE "unavailable"

\* check_time_and_run: the availability probe, at most once an hour
CheckServer ==
    /\ pc = "probe"
    /\ IF is_time_for_server_check(state.last_server_check, now)
       THEN \E outs \in [1..max_retries -> AttemptOutcomes] :
              LET probe == is_server_available(max_retries, outs)
                  result == IF probe.result THEN "up" ELSE "down"
              IN  /\ loc' = [loc EXCEPT !.server_available = probe.result]
                  /\ state' = probed_state(state, now)
                  /\ hist' = [hist EXCEPT !.calls = @ \cup {"probe"}, !.probe = result]
                  /\ past' = [past EXCEPT !.last_probe = <<result, now>>]
                  /\ pc' = after_probe(probe.result)
       ELSE /\ loc' = [loc EXCEPT !.server_available = TRUE]
            /\ pc' = after_probe(TRUE)
            /\ UNCHANGED <<state, hist, past>>
    /\ UNCHANGED <<now, file, fs, boots>>

\* check_time_and_run: the server is not available
ServerUnavailable ==
    /\ pc = "unavailable"
    /\ file' = State_save(state)
    /\ hist' = Return([hist EXCEPT !.writes = @ + 1], FALSE)
    /\ pc' = "images"
    /\ loc' = Loc0
    /\ UNCHANGED <<now, state, fs, past, boots>>

\* find_last_good_night: the starting date
FindStart ==
    /\ pc = "find"
    /\ loc' = [loc EXCEPT !.start_date = search_start_date(state.last_check, now),
                          !.days_back = 0]
    /\ pc' = "night"
    /\ UNCHANGED <<now, state, file, fs, hist, past, boots>>

\* a loop that inspects one date more
search_goes_on_one_more(days_back) == days_back <= max_days_back

\* find_last_good_night: range(0, max_days_back) has an iteration days_back
search_goes_on(days_back) == days_back < max_days_back

\* find_last_good_night: one date of the loop
CheckNight ==
    /\ pc = "night"
    /\ search_goes_on(loc.days_back)
    /\ LET check_date == loc.start_date - loc.days_back
       IN  \E disc \in DiscoveryOutcomes, answers \in DateAnswers(check_date, now) :
             LET station_dirs == get_station_dirs_for_date(state, disc, answers)
                 good == night_passes(station_dirs)
                 l == [loc EXCEPT !.dates = Append(@, check_date),
                                  !.passes = Append(@, good)]
             IN  IF good
                 THEN /\ loc' = [l EXCEPT !.station_dirs = station_dirs,
                                          !.known = get_all_stations(state, TRUE, disc)]
                      /\ pc' = "decide"
                 ELSE /\ loc' = [l EXCEPT !.days_back = @ + 1]
                      /\ pc' = IF search_goes_on(loc.days_back + 1)
                               THEN "night" ELSE "latest"
    /\ hist' = [hist EXCEPT !.calls = @ \cup {"discover", "search"}]
    /\ UNCHANGED <<now, state, file, fs, past, boots>>

\* check_time_and_run: no good night found, take the latest directories
GetLatest ==
    /\ pc = "latest"
    /\ \E disc \in DiscoveryOutcomes, answers \in LatestAnswers(now) :
         LET station_dirs ==
                 get_latest_dirs_all_stations(state, loc.server_available, disc, answers)
         IN  /\ loc' = [loc EXCEPT !.station_dirs = station_dirs]
             /\ hist' = [hist EXCEPT !.calls = @ \cup {"discover", "latest"},
                                     !.fallback = IF DOMAIN station_dirs = {}
                                                  THEN "empty" ELSE "nonempty"]
    /\ pc' = "decide"
    /\ UNCHANGED <<now, state, file, fs, past, boots>>

\* a check that leaves last_check alone
checked_state_unmarked(st, t) == st

\* check_time_and_run: the State once the search is over
checked_state(st, t) == [st EXCEPT !.last_check = isoformat(t)]

\* check_time_and_run: last_check, novelty and quality, the decision
Decide ==
    /\ pc = "decide"
    /\ LET new_images == has_new_images(loc.station_dirs, state.last_dirs)
           is_good == is_good_night(fits_counts_of(loc.station_dirs))
       IN  /\ loc' = [loc EXCEPT !.has_new_images = new_images, !.is_good = is_good,
                                 !.known = {}]
           /\ hist' = [hist EXCEPT !.decided = TRUE, !.new_images = new_images,
                                   !.is_good = is_good]
           /\ pc' = IF should_fetch(new_images, is_good, state.active_stations)
                    THEN "fetch" ELSE "save"
    /\ state' = checked_state(state, now)
    /\ UNCHANGED <<now, file, fs, past, boots>>

\* a fetch that promotes whatever it transferred
after_transfers_always_switching(total_fits) == "rmtree"

\* where fetch_latest_dirs_all_stations goes once every station was tried
after_transfers(total_fits) == IF total_fits > 0 THEN "rmtree" ELSE "update"

\* fetch_latest_dirs_all_stations: create the staging directory
FetchStart ==
    /\ pc = "fetch"
    /\ fs' = IF fs.latest.exists THEN fs ELSE [fs EXCEPT !.latest = EmptyTree]
    /\ loc' = [loc EXCEPT !.total_fits = 0, !.todo = DOMAIN loc.station_dirs,
                          !.succeeded = {}]
    /\ hist' = [hist EXCEPT !.calls = @ \cup {"fetch"}, !.preFs = fs]
    /\ pc' = IF DOMAIN loc.station_dirs = {} THEN after_transfers(0) ELSE "transfer"
    /\ UNCHANGED <<now, state, file, past, boots>>

\* what a subdirectory of the staging directory holds after its transfer:
\* rsync copied the directory, or failed and left what was there
transferred(before, directory, outcome) ==
    IF outcome = "ok" THEN directory ELSE before

\* a loop that a failed transfer ends
next_transfer_stopping_at_failure(rest, outcome, total_fits) ==
    IF rest = {} \/ outcome # "ok" THEN after_transfers(total_fits) ELSE "transfer"

\* fetch_latest_dirs_all_stations: the loop goes on to the next station
\* whatever the outcome of rsync was
next_transfer(rest, outcome, total_fits) ==
    IF rest = {} THEN after_transfers(total_fits) ELSE "transfer"

\* fetch_latest_dirs_all_stations: the transfer of one station, in the
\* order of the snapshot; os.makedirs of the station directory may raise
Transfer ==
    /\ pc = "transfer"
    /\ \E outcome \in {"ok", "rsync_failed", "oserror"} :
         LET s == FirstStation(loc.todo)
             info == loc.station_dirs[s]
             before == DictGet(fs.latest.sub, s, <<>>)
             total_fits == IF outcome = "ok" THEN loc.total_fits + info.fits_count
                           ELSE loc.total_fits
         IN  IF outcome = "oserror"
             THEN /\ hist' = Except(hist)
                  /\ pc' = "images"
                  /\ loc' = Loc0
                  /\ fs' = fs
             ELSE /\ fs' = [fs EXCEPT !.latest.sub =
                               DictSet(@, s, transferred(before, info.directory, outcome))]
                  /\ loc' = [loc EXCEPT !.total_fits = total_fits, !.todo = @ \ {s},
                                        !.succeeded = IF outcome = "ok"
                                                      THEN @ \cup {s} ELSE @]
                  /\ hist' = [hist EXCEPT !.calls = @ \cup {"transfer"}]
                  /\ pc' = next_transfer(loc.todo \ {s}, outcome, total_fits)
    /\ UNCHANGED <<now, state, file, past, boots>>

\* a switch that does not keep the previous generation
SwitchRenameCurrentAway ==
    /\ pc = "rename_current"
    /\ fs' = [fs EXCEPT !.current = Absent]
    /\ pc' = "rename_latest"
    /\ UNCHANGED <<now, state, file, loc, hist, past, boots>>

\* a switch that removes the active directory first
SwitchRmtreeOfCurrent ==
    /\ pc = "rmtree"
    /\ fs' = [fs EXCEPT !.current_old = Absent, !.current = Absent]
    /\ hist' = [hist EXCEPT !.staged = fs.latest]
    /\ pc' = "rename_current"
    /\ UNCHANGED <<now, state, file, loc, past, boots>>

\* switch_latest_dir: shutil.rmtree('current_old', ignore_errors=True)
SwitchRmtree ==
    /\ pc = "rmtree"
    /\ fs' = [fs EXCEPT !.current_old = Absent]
    /\ hist' = [hist EXCEPT !.staged = fs.latest]
    /\ pc' = "rename_current"
    /\ UNCHANGED <<now, state, file, loc, past, boots>>

\* switch_latest_dir: 'current' becomes 'current_old'
SwitchRenameCurrent ==
    /\ pc = "rename_current"
    /\ fs' = IF fs.current.exists
             THEN [fs EXCEPT !.current_old = fs.current, !.current = Absent]
             ELSE fs
    /\ pc' = "rename_latest"
    /\ UNCHANGED <<now, state, file, loc, hist, past, boots>>

\* switch_latest_dir: 'latest' becomes 'current'
SwitchRenameLatest ==
    /\ pc = "rename_latest"
    /\ fs' = [fs EXCEPT !.current = fs.latest, !.latest = Absent]
    /\ hist' = [hist EXCEPT !.promotions = @ + 1]
    /\ pc' = "update"
    /\ UNCHANGED <<now, state, file, loc, past, boots>>

\* an update that keeps only the directories of this snapshot
fetched_state_forgetting_old_dirs(st, station_dirs, total_fits) ==
    [st EXCEPT !.last_switch = st.last_check,
               !.active_stations = DOMAIN station_dirs,
               !.last_dirs = [s \in DOMAIN station_dirs |-> station_dirs[s].directory]]

\* check_time_and_run: the State after the fetch returned total_fits
fetched_state(st, station_dirs, total_fits) ==
    [st EXCEPT !.last_switch = st.last_check,
               !.active_stations = DOMAIN station_dirs,
               !.last_dirs = [s \in (DOMAIN st.last_dirs) \cup DOMAIN station_dirs |->
                                 IF s \in DOMAIN station_dirs
                                 THEN station_dirs[s].directory
                                 ELSE st.last_dirs[s]]]

\* an update of the State that saves it at once
UpdateStateAndSave ==
    /\ pc = "update"
    /\ state' = fetched_state(state, loc.station_dirs, loc.total_fits)
    /\ file' = State_save(state')
    /\ pc' = "save"
    /\ UNCHANGED <<now, fs, loc, hist, past, boots>>

\* check_time_and_run: after the fetch returned
UpdateState ==
    /\ pc = "update"
    /\ state' = fetched_state(state, loc.station_dirs, loc.total_fits)
    /\ pc' = "save"
    /\ UNCHANGED <<now, file, fs, loc, hist, past, boots>>

\* check_time_and_run: save the state and return
SaveState ==
    /\ pc = "save"
    /\ file' = State_save(state)
    /\ hist' = Return([hist EXCEPT !.writes = @ + 1],
                      check_result(loc.has_new_images, loc.is_good))
    /\ past' = IF "fetch" \in hist.calls THEN past
               ELSE [past EXCEPT !.skip_day = <<DateOf(now)>>]
    /\ pc' = "images"
    /\ loc' = Loc0
    /\ UNCHANGED <<now, state, fs, boots>>

\* Application.get_correct_images, after check_time_and_run returned
\* updated: convert when updated, build the cycle when updated or when
\* there is none.  The cycle is empty when the directory holds no PNG.
get_correct_images(updated, images) ==
    [converted |-> updated,
     rebuilt |-> updated \/ images = "none",
     images |-> IF updated \/ images = "none" THEN {"empty", "full"} ELSE {images}]

\* Application.display_next_slide, from the return of check_time_and_run
\* on: next(self.images) raises StopIteration on an empty cycle, and then
\* window.after is not reached
DisplayNextSlide ==
    /\ pc = "images"
    /\ LET got == get_correct_images(hist.ret, past.images)
       IN  \E cyc \in got.images :
             /\ past' = [past EXCEPT !.images = cyc,
                                     !.pending = IF cyc = "empty" THEN @
                                                 ELSE schedule_next(@)]
             /\ hist' = [hist EXCEPT !.hadImages = past.images # "none",
                                     !.converted = got.converted,
                                     !.rebuilt = got.rebuilt,
                                     !.slide = IF cyc = "empty" THEN "stopped"
                                               ELSE "scheduled"]
             /\ pc' = IF cyc = "empty" THEN "stopped" ELSE "idle"
    /\ UNCHANGED <<now, state, file, fs, loc, boots>>

Next ==
    \/ Tick
    \/ Start
    \/ Crash
    \/ CheckEnter
    \/ CheckServer
    \/ ServerUnavailable
    \/ FindStart
    \/ CheckNight
    \/ GetLatest
    \/ Decide
    \/ FetchStart
    \/ Transfer
    \/ SwitchRmtree
    \/ SwitchRenameCurrent
    \/ SwitchRenameLatest
    \/ UpdateState
    \/ SaveState
    \/ DisplayNextSlide

Spec == Init /\ [][Next]_vars

----------------------------------------------------------------------------
\* The pure functions applied to inputs of their own: a call sits in loc,
\* the clock in now, and the value returned is put in hist

MaxCount == 10       \* a station has 0 .. MaxCount capture files

\* the mappings of stations to counts is_good_night is called with
PureStations == {"A", "B", "C"}
CountMappings == UNION {[S -> 0..MaxCount] : S \in SUBSET PureStations}

\* the reference timestamps find_last_good_night is called with: none, one
\* that does not parse, or a time of day 0 .. MaxDay + 1
References ==
    {EmptyStr, Unparsable} \cup
    {isoformat(d * MinutesPerDay + CheckHour * 60) : d \in 0..(MaxDay + 1)}

PureCalls ==
    {[fn |-> "is_good_night", counts |-> m, last_checked_date |-> EmptyStr] :
        m \in CountMappings} \cup
    {[fn |-> "search_start_date", counts |-> EmptyDict, last_checked_date |-> r] :
        r \in References}

MaxRetriesArg == 4   \* is_server_available is called with 1 .. MaxRetriesArg

\* the fields a state file can hold, and a value for each
FileFields == StateFields \cup {"last_dir", "last_good_night_check"}
FileValue(k) ==
    CASE k = "last_dirs" -> [s \in {"BE0012"} |-> <<"BE0012", 0>>]
      [] k = "active_stations" -> {"BE0012"}
      [] k = "image_dir" -> "images"
      [] k = "last_dir" -> <<"BE000D", 0>>
      [] OTHER -> isoformat(CheckHour * 60)

\* what the per-station queries of one date can answer
PureAnswers == [PureStations -> NoDirAnswers \cup DirAnswers({0})]

\* what the station listing can answer to get_all_stations
PureDiscoveries ==
    {[ok |-> FALSE, stations |-> {}]} \cup
    {[ok |-> TRUE, stations |-> S] : S \in SUBSET PureStations}

InitPure ==
    /\ now \in Times
    /\ \/ /\ loc \in PureCalls
          /\ loc.fn = "is_good_night" => now = Min(Times)
       \/ /\ now = Min(Times)
          /\ \E r \in 1..MaxRetriesArg : \E o \in [1..r -> AttemptOutcomes] :
                loc = [fn |-> "is_server_available", retries |-> r, outs |-> o]
       \/ /\ now = Min(Times)
          /\ \E S \in SUBSET FileFields :
                loc = [fn |-> "State_load", data |-> [k \in S |-> FileValue(k)]]
       \/ /\ now = Min(Times)
          /\ \E S \in SUBSET PureStations : \E a \in PureAnswers :
                loc = [fn |-> "get_station_dirs_for_date", stations |-> S,
                       answers |-> a]
       \/ /\ now = Min(Times)
          /\ \E S \in SUBSET PureStations, up \in BOOLEAN, d \in PureDiscoveries :
                loc = [fn |-> "get_all_stations",
                       st |-> [State0 EXCEPT !.active_stations = S],
                       server_available |-> up, disc |-> d]
    /\ pc = "call"
    /\ hist = [ret |-> FALSE]
    /\ state = State0
    /\ file = <<>>
    /\ fs = Fs0
    /\ past = Past0
    /\ boots = 0

ApplyIsGoodNight ==
    /\ pc = "call"
    /\ loc.fn = "is_good_night"
    /\ hist' = [ret |-> is_good_night(loc.counts)]
    /\ pc' = "ret"
    /\ UNCHANGED <<now, state, file, fs, loc, past, boots>>

ApplySearchStartDate ==
    /\ pc = "call"
    /\ loc.fn = "search_start_date"
    /\ hist' = [ret |-> search_start_date(loc.last_checked_date, now)]
    /\ pc' = "ret"
    /\ UNCHANGED <<now, state, file, fs, loc, past, boots>>

ApplyIsServerAvailable ==
    /\ pc = "call"
    /\ loc.fn = "is_server_available"
    /\ hist' = [ret |-> is_server_available(loc.retries, loc.outs)]
    /\ pc' = "ret"
    /\ UNCHANGED <<now, state, file, fs, loc, past, boots>>

ApplyStateLoad ==
    /\ pc = "call"
    /\ loc.fn = "State_load"
    /\ hist' = [ret |-> State_load(loc.data)]
    /\ pc' = "ret"
    /\ UNCHANGED <<now, state, file, fs, loc, past, boots>>

\* get_station_dirs_for_date and the evaluation of its snapshot by
\* find_last_good_night
ApplyGetStationDirsForDate ==
    /\ pc = "call"
    /\ loc.fn = "get_station_dirs_for_date"
    /\ LET station_dirs == station_dirs_for_date(loc.stations, loc.answers)
       IN  hist' = [ret |-> station_dirs, passes |-> night_passes(station_dirs)]
    /\ pc' = "ret"
    /\ UNCHANGED <<now, state, file, fs, loc, past, boots>>

ApplyGetAllStations ==
    /\ pc = "call"
    /\ loc.fn = "get_all_stations"
    /\ hist' = [ret |-> get_all_stations(loc.st, loc.server_available, loc.disc)]
    /\ pc' = "ret"
    /\ UNCHANGED <<now, state, file, fs, loc, past, boots>>

NextPure ==
    \/ ApplyIsGoodNight
    \/ ApplySearchStartDate
    \/ ApplyIsServerAvailable
    \/ ApplyStateLoad
    \/ ApplyGetStationDirsForDate
    \/ ApplyGetAllStations

SpecPure == InitPure /\ [][NextPure]_vars

----------------------------------------------------------------------------
\* The operations that write last_dirs and active_stations, applied in any
\* order to a State whose active stations are keys of last_dirs: the check
\* (with and without fetch), the forced fetch of option -f and the fetch of
\* the last good night at startup.  hist holds the operation applied last
\* and the keys last_dirs had before it.

\* the keys last_dirs can start with
OpsKeys == RemoteStations \cup {"default"}

\* the snapshots an operation can be given
Snapshots ==
    UNION {[S -> {0, 1}] : S \in (SUBSET RemoteStations) \ {{}}}
snapshot_of(dates) ==
    [s \in DOMAIN dates |-> [directory |-> <<s, dates[s]>>,
                             fits_count |-> MIN_FITS_THRESHOLD]]

\* __main__, option -f: the State after the fetch
forced_fetch_state(st, station_dirs) ==
    [st EXCEPT !.active_stations = DOMAIN station_dirs,
               !.last_dirs = [s \in (DOMAIN st.last_dirs) \cup DOMAIN station_dirs |->
                                 IF s \in DOMAIN station_dirs
                                 THEN station_dirs[s].directory
                                 ELSE st.last_dirs[s]]]

\* __main__, slideshow mode: the State after the fetch of the last good
\* night
startup_fetch_state(st, station_dirs) ==
    [st EXCEPT !.active_stations = DOMAIN station_dirs,
               !.last_dirs = [s \in (DOMAIN st.last_dirs) \cup DOMAIN station_dirs |->
                                 IF s \in DOMAIN station_dirs
                                 THEN station_dirs[s].directory
                                 ELSE st.last_dirs[s]]]

InitOps ==
    /\ now \in Times
    /\ \E K \in SUBSET OpsKeys : \E A \in SUBSET (K \ {"default"}) :
          state = [State0 EXCEPT !.last_dirs = [k \in K |-> <<k, 0>>],
                                 !.active_stations = A]
    /\ file = <<>>
    /\ fs = Fs0
    /\ pc = "ops"
    /\ loc = Loc0
    /\ hist = [op |-> "none", keys |-> {}]
    /\ past = Past0
    /\ boots = 0

\* a check that fetches: lines 757, 795-805 and 816
OpCheckFetch ==
    /\ pc = "ops"
    /\ \E station_dirs \in {snapshot_of(d) : d \in Snapshots} \cup {EmptyDict} :
          state' = fetched_state(checked_state(state, now), station_dirs, 0)
    /\ file' = State_save(state')
    /\ hist' = [op |-> "check_fetch", keys |-> DOMAIN state.last_dirs]
    /\ UNCHANGED <<now, fs, pc, loc, past, boots>>

\* a check that does not fetch: lines 757 and 816
OpCheckSkip ==
    /\ pc = "ops"
    /\ state' = checked_state(state, now)
    /\ file' = State_save(state')
    /\ hist' = [op |-> "check_skip", keys |-> DOMAIN state.last_dirs]
    /\ UNCHANGED <<now, fs, pc, loc, past, boots>>

OpForcedFetch ==
    /\ pc = "ops"
    /\ \E d \in Snapshots : state' = forced_fetch_state(state, snapshot_of(d))
    /\ file' = State_save(state')
    /\ hist' = [op |-> "forced_fetch", keys |-> DOMAIN state.last_dirs]
    /\ UNCHANGED <<now, fs, pc, loc, past, boots>>

OpStartupFetch ==
    /\ pc = "ops"
    /\ \E d \in Snapshots : state' = startup_fetch_state(state, snapshot_of(d))
    /\ file' = State_save(state')
    /\ hist' = [op |-> "startup_fetch", keys |-> DOMAIN state.last_dirs]
    /\ UNCHANGED <<now, fs, pc, loc, past, boots>>

NextOps ==
    \/ OpCheckFetch
    \/ OpCheckSkip
    \/ OpForcedFetch
    \/ OpStartupFetch

SpecOps == InitOps /\ [][NextOps]_vars

----------------------------------------------------------------------------
\* Properties of check_time_and_run

\* the remote operations other than the probe
RemoteCalls == {"discover", "search", "latest", "fetch", "transfer"}

\* some station of the selected snapshot has a directory that differs from
\* the one last_dirs held for it when the check began
Novelty ==
    \E s \in DOMAIN loc.station_dirs :
        IF s \in DOMAIN hist.pre.last_dirs
        THEN loc.station_dirs[s].directory # hist.pre.last_dirs[s]
        ELSE loc.station_dirs[s].directory # EmptyStr

\* is_good_night accepts the counts of the selected snapshot
Quality == is_good_night(fits_counts_of(loc.station_dirs))

\* C1: once the check is due and the server counts as available, the fetch
\* is invoked if and only if (some station directory of the snapshot is new
\* and the snapshot is a good night) or active_stations is empty.
C1_FetchIffNewAndGoodOrFirstRun ==
    /\ pc = "fetch" =>
          ((Novelty /\ Quality) \/ hist.pre.active_stations = {})
    /\ (pc = "save" /\ "fetch" \notin hist.calls) =>
          ~((Novelty /\ Quality) \/ hist.pre.active_stations = {})

\* C1 witness: a first run fetches a snapshot of poor quality
C1_Witness ==
    /\ pc = "fetch"
    /\ hist.pre.active_stations = {}
    /\ DOMAIN loc.station_dirs # {}
    /\ ~Quality

\* C2: check_time_and_run returns true if and only if a fetch was performed,
\* a non-empty transfer was promoted, and novelty and quality both held.
C2_ReturnsTrueIffPromotedNewGood ==
    hist.done =>
        (hist.ret <=> /\ "fetch" \in hist.calls
                      /\ hist.promotions > 0
                      /\ hist.new_images
                      /\ hist.is_good)

\* C3: when the probe ran and failed, the invocation makes no discovery,
\* search, listing or fetch, and it returns false.
C3_FailedProbeGatesRemoteCalls ==
    hist.probe = "down" =>
        /\ hist.calls \cap RemoteCalls = {}
        /\ hist.done => ~hist.ret

\* C3 witness: an invocation returned after its probe failed
C3_Witness == hist.done /\ hist.probe = "down" /\ ~hist.ret

\* C4: after a failed probe no invocation makes a remote call until a new
\* probe succeeded, and a new probe runs no earlier than one hour after the
\* previous one.
C4_NoRemoteCallAfterFailedProbe ==
    /\ (hist.started /\ past.last_probe # <<>> /\ past.last_probe[1] = "down") =>
          hist.calls \cap RemoteCalls = {}
    /\ (hist.probe # "none" /\ hist.pre.last_server_check # EmptyStr) =>
          (now - hist.pre.last_server_check[1]) * 60 >= 3600

\* the entry condition: it is 9 o'clock or later and no check was completed
\* today
DueNow ==
    /\ HourOf(now) >= 9
    /\ \/ hist.pre.last_check = EmptyStr
       \/ DateOf(hist.pre.last_check[1]) # DateOf(now)

\* C5: the invocation passes its entry gate if and only if the hour is >= 9
\* and last_check is empty or of another day; when it does not pass, it
\* makes no call, changes no field, writes nothing and returns false.
C5_EntryGate ==
    hist.started =>
        /\ hist.gate <=> DueNow
        /\ ~hist.gate =>
              /\ hist.done /\ ~hist.ret
              /\ hist.calls = {}
              /\ hist.writes = 0
              /\ state = hist.pre
              /\ file = hist.preFile

\* C5 witness: an invocation after 9 o'clock is stopped at the gate by a
\* check completed earlier the same day
C5_Witness ==
    /\ hist.done /\ ~hist.gate
    /\ HourOf(now) >= 9
    /\ state.last_check # EmptyStr
    /\ DateOf(state.last_check[1]) = DateOf(now)

\* C6: a check that decides not to fetch still sets last_check to its time
\* and saves it, and no later invocation of the same day searches or
\* fetches.
C6_SkipMarksTheDayChecked ==
    /\ (hist.done /\ hist.decided /\ "fetch" \notin hist.calls) =>
          /\ state.last_check = <<now>>
          /\ file = <<state>>
    /\ (hist.started /\ ~hist.decided /\ past.skip_day = <<DateOf(now)>>) =>
          hist.calls \cap RemoteCalls = {}

\* C6 witness: an invocation later on the day of a check that did not fetch
C6_Witness ==
    /\ past.skip_day = <<DateOf(now)>>
    /\ hist.done /\ ~hist.gate
    /\ file # <<>> /\ file[1].last_check # EmptyStr
    /\ file[1].last_check[1] < now

\* C7: last_dirs, active_stations and last_switch change only in a check
\* whose fetch promoted a non-empty transfer.
C7_FieldsChangeOnlyOnPromotion ==
    (hist.started /\ hist.promotions = 0) =>
        /\ state.last_dirs = hist.pre.last_dirs
        /\ state.active_stations = hist.pre.active_stations
        /\ state.last_switch = hist.pre.last_switch

\* C8: when the probe fails, the state is saved with last_server_check set
\* to the time of the check and every other field as it was at entry, in
\* memory and in the file.
C8_ProbeFailureTouchesOnlyServerCheck ==
    (hist.done /\ hist.probe = "down") =>
        /\ state = [hist.pre EXCEPT !.last_server_check = <<now>>]
        /\ file = <<state>>
        /\ hist.writes = 1

\* C8 witness: the probe fails in a process that fetched on an earlier day
C8_Witness ==
    /\ hist.done /\ hist.probe = "down"
    /\ hist.pre.active_stations # {}
    /\ hist.pre.last_check # EmptyStr

\* C9: at every return, a State that the invocation changed has been saved.
C9_ChangedStateIsSavedAtReturn ==
    hist.done => (state # hist.pre => file = <<state>>)

\* C10: the state file is written at most once per invocation and only as
\* its last step, it equals its content at entry until then, and at most
\* one promotion happens.
C10_OneWriteAfterDecision ==
    hist.started =>
        /\ hist.writes <= 1
        /\ hist.promotions <= 1
        /\ hist.writes = 0 => file = hist.preFile
        /\ hist.writes = 1 => hist.done

\* C10 witness: after the promotion and the update of the State, before the
\* save
C10_Witness ==
    /\ pc = "save"
    /\ hist.promotions = 1
    /\ hist.writes = 0
    /\ state.last_dirs # hist.pre.last_dirs
    /\ file = hist.preFile

----------------------------------------------------------------------------
\* Properties of the fetch and the promotion

\* the fetch is running and has not reached the first rename
BeforeFirstRename == pc \in {"transfer", "rmtree", "rename_current"}

\* the fetch is running or has just returned
InFetch ==
    pc \in {"transfer", "rmtree", "rename_current", "rename_latest", "update"}

\* the complete copies of the directories of the selected snapshot
StagedSet == [s \in DOMAIN loc.station_dirs |-> loc.station_dirs[s].directory]

\* C11: at every point after the staging directory began to be populated
\* and before the first rename of switch_latest_dir (so wherever the
\* process may be killed there), 'current' holds exactly what it held when
\* the fetch began.
C11_CurrentUntouchedBeforeRename ==
    BeforeFirstRename => fs.current = hist.preFs.current

\* C11 witness: staging is populated with a new set, the switch is about
\* to do its first rename, and 'current' holds the set of an earlier fetch
C11_Witness ==
    /\ pc = "rename_current"
    /\ fs.latest.sub # EmptyDict
    /\ fs.current.sub # EmptyDict
    /\ fs.current.sub # fs.latest.sub

\* C12: at every point of the fetch and of the switch, 'current' is
\* exactly the previous working set or exactly the complete newly staged
\* set.
C12_CurrentIsOldOrNewSet ==
    InFetch =>
        \/ fs.current = hist.preFs.current
        \/ fs.current.exists /\ fs.current.sub = StagedSet

\* C13: when the fetch ends with total 0 there was no promotion and
\* 'current' and 'current_old' are as they were when it began; when total
\* is positive the promotion was performed exactly once (and the switch
\* runs only with a positive total).
C13_PromotionIffTotalPositive ==
    /\ (pc = "update" /\ loc.total_fits = 0) =>
          /\ hist.promotions = 0
          /\ fs.current = hist.preFs.current
          /\ fs.current_old = hist.preFs.current_old
    /\ (pc = "update" /\ loc.total_fits > 0) => hist.promotions = 1
    /\ pc \in {"rmtree", "rename_current", "rename_latest"} => loc.total_fits > 0

\* C13 witness: the fetch returned 0 after transferring only stations
\* without capture files
C13_Witness ==
    /\ pc = "update"
    /\ loc.total_fits = 0
    /\ loc.succeeded # {}
    /\ fs.current.exists
    /\ fs.latest.exists

----------------------------------------------------------------------------
\* Properties of the search

\* find_last_good_night returned a snapshot it accepted
SearchAccepted == pc = "decide" /\ "latest" \notin hist.calls

\* C15: the search accepts a date only if the mean count over all the
\* stations discovery returned, a station without a directory or with a
\* failed query counting as zero, is at least 5.
C15_AcceptedNightIsGoodOverKnownStations ==
    SearchAccepted =>
        SumOver(fits_counts_of(loc.station_dirs), DOMAIN loc.station_dirs)
            >= 5 * Cardinality(loc.known)

\* C16: is_good_night is false for the empty mapping and otherwise true if
\* and only if the mean of the counts is at least 5, that is the sum is at
\* least 5 times the number of entries.
C16_GoodNightIffMeanAtLeastThreshold ==
    (pc = "ret" /\ loc.fn = "is_good_night") =>
        LET n == Cardinality(DOMAIN loc.counts)
            total == SumOver(loc.counts, DOMAIN loc.counts)
        IN  /\ n = 0 => ~hist.ret
            /\ n > 0 => /\ hist.ret <=> total \div n >= 5
                        /\ hist.ret <=> total >= 5 * n

\* C16 witness: {A: 9, B: 0} is not a good night
C16_Witness ==
    /\ pc = "ret" /\ loc.fn = "is_good_night"
    /\ loc.counts = [s \in {"A", "B"} |-> IF s = "A" THEN 9 ELSE 0]
    /\ ~hist.ret

\* C17: the search queries at most 30 dates, each one day before the
\* previous one from its start date on; no date before the last passed;
\* when it returns a snapshot, that is the snapshot of the last date
\* queried, which passed; when it returns nothing, 30 dates were queried
\* and none passed.
C17_SearchInspectsAtMostThirtyDescending ==
    /\ Len(loc.dates) <= 30
    /\ Len(loc.passes) = Len(loc.dates)
    /\ \A i \in 1..Len(loc.dates) : loc.dates[i] = loc.start_date - (i - 1)
    /\ \A i \in 1..(Len(loc.passes) - 1) : ~loc.passes[i]
    /\ SearchAccepted =>
          /\ loc.passes[Len(loc.passes)]
          /\ DOMAIN loc.station_dirs # {}
          /\ is_good_night(fits_counts_of(loc.station_dirs))
          /\ \A s \in DOMAIN loc.station_dirs :
                 loc.station_dirs[s].directory = <<s, loc.dates[Len(loc.dates)]>>
    /\ pc = "latest" =>
          /\ Len(loc.dates) = 30
          /\ \A i \in 1..30 : ~loc.passes[i]
          /\ loc.station_dirs = EmptyDict

\* C17 witness: the search rejected its first date and accepted the one
\* before
C17_Witness ==
    /\ SearchAccepted
    /\ Len(loc.dates) = 2
    /\ ~loc.passes[1]

\* the date of yesterday
Yesterday == DateOf(now) - 1

\* no reference timestamp that parses was supplied
NoReference ==
    loc.last_checked_date = EmptyStr \/ loc.last_checked_date[1] < 0

PastSearch == pc \in {"decide", "fetch", "save"} \/ InFetch

\* C19: the listing of the latest directories is used if and only if the
\* search returned nothing; its snapshot holds only stations with a count
\* above 0; and when it is empty the check still completes, with
\* last_check set and saved.
C19_FallbackIffSearchEmpty ==
    /\ PastSearch =>
          ("latest" \in hist.calls <=> \A i \in 1..Len(loc.passes) : ~loc.passes[i])
    /\ (pc = "decide" /\ "latest" \in hist.calls) =>
          \A s \in DOMAIN loc.station_dirs : loc.station_dirs[s].fits_count > 0
    /\ hist.fallback = "empty" => ~hist.raised
    /\ (hist.fallback = "empty" /\ hist.done) =>
          /\ state.last_check = <<now>>
          /\ file = <<state>>

\* C19 witness: a check returned after an empty listing
C19_Witness ==
    /\ hist.done
    /\ hist.fallback = "empty"
    /\ state.last_check = <<now>>

\* the probe is due: last_server_check was empty at entry, or at least
\* 3600 seconds old
ProbeDue ==
    \/ hist.pre.last_server_check = EmptyStr
    \/ (now - hist.pre.last_server_check[1]) * 60 >= 3600

\* C20: the check probes only when the probe is due, so two probes of one
\* process are at least an hour apart; when it is not due the check makes
\* no probe, takes the server as available and goes on to the search.
C20_ProbeAtMostHourly ==
    /\ hist.probe # "none" => ProbeDue
    /\ (hist.probe # "none" /\ hist.prevProbe # <<>>) =>
          (now - hist.prevProbe[2]) * 60 >= 3600
    /\ (hist.gate /\ pc # "probe" /\ ~ProbeDue) =>
          /\ hist.probe = "none"
          /\ "probe" \notin hist.calls
          /\ pc # "unavailable"
          /\ pc \in {"find", "night", "latest", "decide"} => loc.server_available

\* C20 witness: a check within the hour after a probe of this process goes
\* to the search without probing
C20_Witness ==
    /\ pc = "find"
    /\ hist.probe = "none"
    /\ hist.prevProbe # <<>>
    /\ loc.server_available

----------------------------------------------------------------------------
\* Properties of the probe

\* is_server_available returned
ProbeReturned == pc = "ret" /\ loc.fn = "is_server_available"

\* no attempt yielded the success token
AllFailed == \A i \in 1..loc.retries : loc.outs[i] # "server_available"

C22_TrueIffSuccessToken ==
    ProbeReturned =>
        LET hits == {i \in 1..loc.retries : loc.outs[i] = "server_available"}
        IN  /\ hist.ret.attempts <= loc.retries
            /\ hist.ret.result <=> hits # {}
            /\ hits # {} => hist.ret.attempts = Min(hits)
            /\ hits = {} => hist.ret.attempts = loc.retries

\* C22 witness: other output, a timeout, then the success token
C22_Witness ==
    /\ ProbeReturned
    /\ loc.outs = <<"other_output", "timeout", "server_available">>
    /\ hist.ret.result
    /\ hist.ret.attempts = 3

----------------------------------------------------------------------------
\* Properties of the State

\* C23: after any sequence of checks, forced fetches and startup fetches
\* every active station is a key of last_dirs, and no operation removes a
\* key of last_dirs.
C23_ActiveStationsAreKeysOfLastDirs ==
    pc = "ops" =>
        /\ state.active_stations \subseteq DOMAIN state.last_dirs
        /\ hist.keys \subseteq DOMAIN state.last_dirs

\* C23 witness: after a forced fetch of BE000D alone, the keys of the
\* legacy entry and of the station that is no longer active are kept
C23_Witness ==
    /\ pc = "ops"
    /\ hist.op = "forced_fetch"
    /\ state.active_stations = {"BE000D"}
    /\ DOMAIN state.last_dirs = {"BE000D", "BE0012", "default"}

\* State.load returned
LoadReturned == pc = "ret" /\ loc.fn = "State_load"

\* the fields of the file with the deprecated and the legacy one dropped
KeptFields == (DOMAIN loc.data) \ {"last_dir", "last_good_night_check"}

\* C24: a legacy file with last_dir = X and no last_dirs loads with
\* last_dirs = {"default": X}, the absent fields at their defaults and no
\* last_dir field.
C24_LegacyFileIsMigrated ==
    (LoadReturned /\ "last_dir" \in DOMAIN loc.data
                  /\ "last_dirs" \notin DOMAIN loc.data) =>
        /\ hist.ret.ok
        /\ DOMAIN hist.ret.state = StateFields
        /\ hist.ret.state.last_dirs = [s \in {"default"} |-> loc.data["last_dir"]]
        /\ \A k \in StateFields \ {"last_dirs"} :
              hist.ret.state[k] = IF k \in DOMAIN loc.data THEN loc.data[k]
                                  ELSE State0[k]

\* C24 witness: a legacy file of last_dir and last_switch
C24_Witness ==
    /\ LoadReturned
    /\ DOMAIN loc.data = {"last_dir", "last_switch"}
    /\ hist.ret.ok
    /\ hist.ret.state.active_stations = {}
    /\ hist.ret.state.last_check = EmptyStr

\* C25: State.load succeeds on every file made of current fields, last_dir
\* and last_good_night_check, and every field the file lacks has its
\* default value.
C25_LoadNeverFails ==
    LoadReturned =>
        /\ hist.ret.ok
        /\ \A k \in StateFields \ (KeptFields \cup {"last_dirs"}) :
              hist.ret.state[k] = State0[k]

----------------------------------------------------------------------------
\* Properties of the slideshow

\* C26: every invocation of display_next_slide schedules the next one.
C26_EverySlideSchedulesTheNext ==
    /\ hist.slide # "stopped"
    /\ pc # "stopped"

\* C27: when the check of a tick promoted a transfer, that tick converts
\* the new working set and rebuilds the cycle; and the cycle is rebuilt
\* only when the check promoted a transfer or there was no cycle.
C27_RebuildIffWorkingSetChanged ==
    hist.slide # "none" =>
        /\ (hist.hadImages /\ hist.promotions > 0) =>
              hist.converted /\ hist.rebuilt
        /\ hist.rebuilt => hist.promotions > 0 \/ ~hist.hadImages

\* C28: no failure of a remote call leaves check_time_and_run as an
\* exception: control goes back to the caller by a return only, what is
\* raised inside is turned into False, and the value is true only when
\* novelty and quality held.
C28_RemoteFailuresEndInABoolean ==
    /\ ~hist.propagated
    /\ pc = "images" => hist.done
    /\ hist.raised => hist.done /\ ~hist.ret
    /\ (hist.done /\ hist.ret) => hist.new_images /\ hist.is_good

\* C28 witness: the check returned True after a fetch in which a transfer
\* failed and nothing was promoted
C28_Witness ==
    /\ pc = "images"
    /\ hist.ret
    /\ "transfer" \in hist.calls
    /\ hist.promotions = 0
    /\ ~hist.raised

\* C29: switch_latest_dir first removes 'current_old', then renames
\* 'current' to 'current_old', then 'latest' to 'current'; when it is done
\* 'current' holds what staging held, 'current_old' what 'current' held,
\* 'latest' is gone, and there are no other slots.
C29_SwitchKeepsOneGeneration ==
    /\ DOMAIN fs = {"latest", "current", "current_old"}
    /\ pc = "rename_current" =>
          /\ ~fs.current_old.exists
          /\ fs.current = hist.preFs.current
          /\ fs.latest = hist.staged
    /\ pc = "rename_latest" =>
          /\ fs.current_old = hist.preFs.current
          /\ ~fs.current.exists
          /\ fs.latest = hist.staged
    /\ (pc = "update" /\ hist.promotions > 0) =>
          /\ fs.current = hist.staged
          /\ fs.current_old = hist.preFs.current
          /\ ~fs.latest.exists

\* C29 witness: a second promotion is done, the set of the first one is
\* the backup
C29_Witness ==
    /\ pc = "update"
    /\ hist.promotions = 1
    /\ fs.current_old.sub # EmptyDict
    /\ fs.current.sub # fs.current_old.sub

\* get_station_dirs_for_date returned
QueriesReturned == pc = "ret" /\ loc.fn = "get_station_dirs_for_date"

\* C30: the snapshot of a date holds exactly the queried stations whose
\* own query found a directory, each with its directory and count, whatever
\* the queries of the other stations did; and that snapshot is what
\* is_good_night is given.
C30_StationQueriesAreIndependent ==
    QueriesReturned =>
        /\ DOMAIN hist.ret = {s \in loc.stations : loc.answers[s].kind = "dir"}
        /\ \A s \in DOMAIN hist.ret :
              hist.ret[s] = [directory |-> <<s, loc.answers[s].date>>,
                             fits_count |-> loc.answers[s].fits_count]
        /\ hist.passes <=> /\ DOMAIN hist.ret # {}
                           /\ is_good_night([s \in DOMAIN hist.ret |->
                                                loc.answers[s].fits_count])

\* C30 witness: the query of A failed, B and C are in the snapshot, which
\* passes
C30_Witness ==
    /\ QueriesReturned
    /\ loc.stations = PureStations
    /\ loc.answers["A"].kind = "failed"
    /\ DOMAIN hist.ret = {"B", "C"}
    /\ hist.passes

----------------------------------------------------------------------------
\* get_all_stations returned
StationsReturned == pc = "ret" /\ loc.fn = "get_all_stations"

\* discovery failed: the server is flagged unavailable, the listing failed,
\* or it listed no station
DiscoveryFailed ==
    \/ ~loc.server_available
    \/ ~loc.disc.ok
    \/ loc.disc.stations = {}

\* C31: get_all_stations never returns an empty list of stations, and when
\* discovery fails (server flagged unavailable, failed listing, empty
\* listing) it returns the cached active stations if there are any and
\* ['BE000D'] otherwise
C31_FallbackWheneverDiscoveryFails ==
    StationsReturned =>
        /\ hist.ret # {}
        /\ DiscoveryFailed => hist.ret = cached_stations(loc.st)

----------------------------------------------------------------------------
\* an invocation of display_next_slide is in progress: in check_time_and_run
\* or after its return
InSlide == pc \notin {"off", "idle", "stopped"}

\* C32: at most one invocation of display_next_slide is pending at any time,
\* and none is pending while one is in progress (the next is scheduled at the
\* end of the current one), so no check_time_and_run starts while another is
\* in progress
C32_NoCallbackPendingDuringACheck ==
    /\ past.pending <= 1
    /\ InSlide => past.pending = 0

\* a check started by a timer callback is in progress, past its entry gate
C32_Witness ==
    /\ pc = "probe"
    /\ hist.started /\ hist.gate
    /\ past.images = "full"
    /\ past.pending = 0

----------------------------------------------------------------------------
\* check_time_and_run updated the State after a fetch that promoted data
UpdatedAfterPromotion ==
    pc = "save" /\ "fetch" \in hist.calls /\ hist.promotions > 0

\* C33: when a fetch promotes data but the transfer of a station failed,
\* last_dirs keeps that station's previous value (or stays without the
\* station), so last_dirs names only directories whose transfer succeeded
C33_LastDirsOnlyOfSucceededTransfers ==
    UpdatedAfterPromotion =>
        \A s \in (DOMAIN loc.station_dirs) \ loc.succeeded :
            /\ s \in DOMAIN state.last_dirs <=> s \in DOMAIN hist.pre.last_dirs
            /\ DictGet(state.last_dirs, s, EmptyStr)
                   = DictGet(hist.pre.last_dirs, s, EmptyStr)

----------------------------------------------------------------------------
\* switch_latest_dir has just promoted the staging directory
JustPromoted == pc = "update" /\ hist.promotions > 0

\* the stations of which a directory slot holds data
StationsWithData(slot) == {s \in DOMAIN slot.sub : slot.sub[s] # <<>>}

\* C34: after a promotion 'current' holds data of exactly the stations of
\* the snapshot whose transfer succeeded in this fetch, and of each the
\* directory of the snapshot: nothing an earlier fetch left in 'latest' and
\* nothing of a station whose transfer failed
C34_PromotedDataIsOfThisFetch ==
    JustPromoted =>
        /\ StationsWithData(fs.current) = loc.succeeded
        /\ \A s \in loc.succeeded :
               fs.current.sub[s] = loc.station_dirs[s].directory
====
